---- MODULE Spec2Model ----
(***************************************************************************)
(* Model of fastapi-backend/main.py: the /transcribe endpoint.             *)
(*                                                                         *)
(*   process_audio_file  persists the upload, decodes it (auto-detection,  *)
(*                       then an explicit m4a retry), normalizes and       *)
(*                       exports a WAV next to the upload;                 *)
(*   transcribe_audio    an async generator: runs the engine, attributes   *)
(*                       speakers by pause length, yields one JSON line    *)
(*                       per non-empty segment, then {"complete": true},   *)
(*                       and removes both temporary files in its finally;  *)
(*   transcribe          the handler: wraps each line in an SSE frame.     *)
(*                                                                         *)
(* Time is counted in ticks of 0.05 s, texts and paths are sequences of    *)
(* one-character strings.  The code between two suspension points (a       *)
(* yield, the pacing sleep) runs without interleaving; the environment     *)
(* (decoder, engine, os.remove, client) chooses its outcomes freely.       *)
(***************************************************************************)
EXTENDS Integers, Sequences, FiniteSets, TLC

\* ---------------------------------------------------------------- bounds
\* number of pipeline invocations the variables are declared for
NumInv == 2
\* longest free engine output (segments per invocation)
MaxSegs == 2
\* longest engine output when two invocations run interleaved
ConcMaxSegs == 2
\* free segment times are 0, 5, ..., 5 * MaxTick ticks (0.25 s apart)
MaxTick == 3

\* ------------------------------------------------------- program constants
\* the pause that flips the speaker: 0.5 s = 10 ticks of 0.05 s
Threshold == 10
\* file_path[:-4] drops the four characters of ".wav"
SuffixLen == 4

Invs == 1..NumInv

VARIABLES pc, fs, log, response, raised, file_path, decodes,
          connected, current_speaker, last_end_time, consumed,
          events, frames, engineFailed, removals

handlerVars == <<response, file_path, decodes>>
loopVars    == <<current_speaker, last_end_time, consumed>>
streamVars  == <<events, frames>>
vars == <<pc, fs, log, response, raised, file_path, decodes,
          connected, current_speaker, last_end_time, consumed,
          events, frames, engineFailed, removals>>

\* ------------------------------------------------------------ pure helpers
\* characters str.strip() removes
Whitespace == {" ", "\n"}

RECURSIVE LStrip(_)
LStrip(t) == IF t # <<>> /\ Head(t) \in Whitespace THEN LStrip(Tail(t)) ELSE t

RECURSIVE RStrip(_)
RStrip(t) ==
  IF t # <<>> /\ t[Len(t)] \in Whitespace
  THEN RStrip(SubSeq(t, 1, Len(t) - 1)) ELSE t

\* variant: only the leading whitespace is removed (lstrip)
Strip_LeftOnly(t) == LStrip(t)

\* text = segment.text.strip()
Strip(t) == RStrip(LStrip(t))

\* variant: every segment is forwarded, whatever its text
IsTruthy_Always(text) == TRUE

\* if text:
IsTruthy(text) == text # <<>>

\* variant: a pause of exactly the threshold flips too (>=)
ShouldFlip_AtThreshold(start, last) == start - last >= Threshold

\* if segment.start - last_end_time > 0.5:
ShouldFlip(start, last) == start - last > Threshold

\* variant: the flip never leaves Speaker 2 once it is reached
Flip_Stuck(sp) == "Speaker 2"

\* "Speaker 2" if current_speaker == "Speaker 1" else "Speaker 1"
Flip(sp) == IF sp = "Speaker 1" THEN "Speaker 2" ELSE "Speaker 1"

\* variant: the running end time follows every segment, dropped or not
LastEndAfter_Unconditional(last, seg, text) == seg.end

\* last_end_time = segment.end, inside `if text:'
LastEndAfter(last, seg, text) == IF IsTruthy(text) THEN seg.end ELSE last

\* the speaker after the pause check of one loop iteration
SpeakerFor(sp, start, last) == IF ShouldFlip(start, last) THEN Flip(sp) ELSE sp

\* result = {"speaker": ..., "text": text, "start": ..., "end": ..., "complete": False}
Result(sp, text, seg) ==
  [speaker |-> sp, text |-> text, start |-> seg.start, end |-> seg.end,
   complete |-> FALSE]

\* variant: the last record does not say that the stream is complete
CompleteRecord_NotTerminal == [complete |-> FALSE]

\* {"complete": True}
CompleteRecord == [complete |-> TRUE]

\* json.dumps(x) + "\n": the serialized record followed by a newline
JsonLine(rec) == <<"json", rec, "\n">>

\* variant: the frame lacks the blank line that ends an SSE event
SSEFrame_NoTerminator(line) == <<"data: ">> \o line

\* f"data: {transcript}\n\n"
SSEFrame(line) == <<"data: ">> \o line \o <<"\n", "\n">>

\* variant: the newest item is delivered ahead of the earlier ones
Yield_Prepend(stream, item) == <<item>> \o stream

\* a yield of transcribe_audio appends to the stream it produces
Yield(stream, item) == Append(stream, item)

\* variant: every request writes its upload under one fixed name
TempName_Shared(i) == <<"t", "m", "p", "1", ".", "m", "4", "a">>

\* tempfile.NamedTemporaryFile(delete=False, suffix=".m4a").name
TempName(i) == <<"t", "m", "p", <<"1", "2", "3", "4">>[i], ".", "m", "4", "a">>

\* wav_path = temp_audio.name + ".wav"
WavPath(name) == name \o <<".", "w", "a", "v">>

\* file_path[:-4]
OriginalPath(p) == SubSeq(p, 1, Len(p) - SuffixLen)

\* exceptions, as far as the code distinguishes them
NoExc == [kind |-> "none", status |-> 0, detail |-> <<>>]
HTTPException(status, detail) ==
  [kind |-> "HTTPException", status |-> status, detail |-> detail]
OtherExc(kind, msg) == [kind |-> kind, status |-> 0, detail |-> <<msg>>]

\* raise HTTPException(status_code=400, detail=f"Error processing audio: {str(e)}")
ProcessError(msg) == HTTPException(400, <<"Error processing audio: ", msg>>)

\* raise HTTPException(status_code=500, detail=f"Transcription error: {str(e)}")
TranscriptionError(msg) == HTTPException(500, <<"Transcription error: ", msg>>)

\* variant: the handler turns every exception into a 500
HandlerError_Always500(e) == HTTPException(500, e.detail)

\* the handler's except clause: an HTTPException is re-raised as it is,
\* anything else becomes a 500
HandlerError(e) ==
  IF e.kind = "HTTPException" THEN e ELSE HTTPException(500, e.detail)

\* variant: each removal has a guard of its own, the upload is removed even
\* when the waveform could not be
RemoveFiles_Independent(store, path, failWav, failOrig) ==
  [fs |-> (IF failWav THEN store ELSE store \ {path}) \
            (IF failOrig THEN {} ELSE {OriginalPath(path)}),
   tried |-> <<[path |-> path, ok |-> ~failWav],
               [path |-> OriginalPath(path), ok |-> ~failOrig]>>]

\* the finally block of transcribe_audio: one guarded block removes the
\* waveform and then the upload; failWav/failOrig say whether the respective
\* os.remove raises.  Gives the storage afterwards and the attempts made.
RemoveFiles(store, path, failWav, failOrig) ==
  IF failWav
  THEN [fs |-> store, tried |-> <<[path |-> path, ok |-> FALSE]>>]
  ELSE IF failOrig
  THEN [fs |-> store \ {path},
        tried |-> <<[path |-> path, ok |-> TRUE],
                    [path |-> OriginalPath(path), ok |-> FALSE]>>]
  ELSE [fs |-> (store \ {path}) \ {OriginalPath(path)},
        tried |-> <<[path |-> path, ok |-> TRUE],
                    [path |-> OriginalPath(path), ok |-> TRUE]>>]

\* variant: the removals are not guarded, their failure replaces whatever
\* was propagating
AfterFinally_Raises(pending, removeFailed) ==
  IF removeFailed THEN OtherExc("OSError", "remove failed") ELSE pending

\* what leaves the finally block: the exception that was propagating when
\* it was entered; a failed os.remove is caught inside the block
AfterFinally(pending, removeFailed) == pending

\* current_speaker = "Speaker 1"
SeedSpeaker == "Speaker 1"

\* variant: the running end time does not start at the beginning of the audio
SeedLastEnd_NonZero == Threshold \div 2

\* last_end_time = 0
SeedLastEnd == 0

\* ------------------------------------------------------- engine's outputs
Times == {5 * k : k \in 0..MaxTick}
Texts == {<<" ">>, <<"a">>, <<" ", "a", " ">>}
Segments == {s \in [start : Times, end : Times, text : Texts] : s.start <= s.end}

\* the four segments of the alternation example: starts 0.0, 0.3, 1.2, 1.3
\* and ends 0.2, 0.4, 1.25, 1.5 seconds
ExampleSegs ==
  << [start |-> 0,  end |-> 4,  text |-> <<"a">>],
     [start |-> 6,  end |-> 8,  text |-> <<"a">>],
     [start |-> 24, end |-> 25, text |-> <<"a">>],
     [start |-> 26, end |-> 30, text |-> <<"a">>] >>

IsPrefix(s, t) == Len(s) <= Len(t) /\ s = SubSeq(t, 1, Len(s))

\* a text whose trimmed form is not empty has a character that is no whitespace
HasVisibleChar(t) == \E k \in 1..Len(t) : t[k] \notin Whitespace

\* the segments of hist the loop forwards
Spoken(hist) == SelectSeq(hist, LAMBDA s : HasVisibleChar(s.text))

\* a segment without words that starts a long pause after a spoken one and
\* is followed at once by the next spoken one
PauseDropSegs ==
  << [start |-> 0,  end |-> 0,  text |-> <<"a">>],
     [start |-> 15, end |-> 15, text |-> <<" ">>],
     [start |-> 15, end |-> 20, text |-> <<" ", "a", " ">>] >>

\* engine outputs longer than MaxSegs that are offered whole
Scripts == {ExampleSegs, PauseDropSegs}

\* the segments the engine may produce after having produced hist: any
\* segment starting no earlier than the last one, up to MaxSegs of them, or
\* the next segment of a script
NextSegments(hist) ==
  {s \in Segments :
     /\ Len(hist) < MaxSegs
     /\ \A k \in 1..Len(hist) : hist[k] \in Segments
     /\ hist # <<>> => hist[Len(hist)].start <= s.start}
  \cup
  {sc[Len(hist) + 1] : sc \in {t \in Scripts : Len(hist) < Len(t) /\ IsPrefix(hist, t)}}

\* ------------------------------------------------------------------- Init
\* `active' is the set of invocations that receive a request
InitFor(active) ==
  /\ pc = [i \in Invs |-> IF i \in active THEN "Received" ELSE "Idle"]
  /\ fs = {}
  /\ log = <<>>
  /\ response = [i \in Invs |-> <<>>]
  /\ raised = [i \in Invs |-> NoExc]
  /\ file_path = [i \in Invs |-> <<>>]
  /\ decodes = [i \in Invs |-> <<>>]
  /\ connected = [i \in Invs |-> TRUE]
  /\ current_speaker = [i \in Invs |-> SeedSpeaker]
  /\ last_end_time = [i \in Invs |-> SeedLastEnd]
  /\ consumed = [i \in Invs |-> <<>>]
  /\ events = [i \in Invs |-> <<>>]
  /\ frames = [i \in Invs |-> <<>>]
  /\ engineFailed = [i \in Invs |-> FALSE]
  /\ removals = [i \in Invs |-> <<>>]

Init == InitFor({1})

\* ------------------------------------------------- process_audio_file
\* the except clause of process_audio_file followed by the handler's:
\* print, raise HTTPException(400), which the handler re-raises
FailProcessing(i, msg) ==
  /\ log' = Append(log, <<i, "Error processing audio">>)
  /\ raised' = [raised EXCEPT ![i] = HandlerError(ProcessError(msg))]
  /\ response' = [response EXCEPT ![i] =
                    Append(@, [status |-> HandlerError(ProcessError(msg)).status,
                               detail |-> HandlerError(ProcessError(msg)).detail])]
  /\ pc' = [pc EXCEPT ![i] = "Done"]

\* NamedTemporaryFile(delete=False), file.read(), write, flush
SaveUpload(i) ==
  /\ pc[i] = "Received"
  /\ fs' = fs \cup {TempName(i)}
  /\ \E ok \in BOOLEAN :
       IF ok
       THEN /\ pc' = [pc EXCEPT ![i] = "Decode1"]
            /\ UNCHANGED <<log, raised, response>>
       ELSE FailProcessing(i, "read failed")
  /\ UNCHANGED <<file_path, decodes, connected, loopVars, streamVars,
                 engineFailed, removals>>

\* variant: the explicit-format decode is attempted whatever auto-detection gave
AfterAutoDetect_AlwaysRetry(ok) == "Decode2"

\* try: from_file(name)  except: from_file(name, format="m4a")
AfterAutoDetect(ok) == IF ok THEN "Export" ELSE "Decode2"

\* audio = AudioSegment.from_file(temp_audio.name)
DecodeAuto(i) ==
  /\ pc[i] = "Decode1"
  /\ \E ok \in BOOLEAN :
       /\ decodes' = [decodes EXCEPT ![i] = Append(@, [format |-> "auto", ok |-> ok])]
       /\ pc' = [pc EXCEPT ![i] = AfterAutoDetect(ok)]
  /\ UNCHANGED <<fs, log, response, raised, file_path, connected, loopVars,
                 streamVars, engineFailed, removals>>

\* except: audio = AudioSegment.from_file(temp_audio.name, format="m4a")
DecodeExplicit(i) ==
  /\ pc[i] = "Decode2"
  /\ \E ok \in BOOLEAN :
       /\ decodes' = [decodes EXCEPT ![i] = Append(@, [format |-> "m4a", ok |-> ok])]
       /\ IF ok
          THEN /\ pc' = [pc EXCEPT ![i] = "Export"]
               /\ UNCHANGED <<log, raised, response>>
          ELSE FailProcessing(i, "m4a decoder message")
  /\ UNCHANGED <<fs, file_path, connected, loopVars, streamVars,
                 engineFailed, removals>>

\* audio.normalize(), audio.export(wav_path, ...), return wav_path; then the
\* handler builds the StreamingResponse around event_generator()
ExportAndRespond(i) ==
  /\ pc[i] = "Export"
  /\ \E outcome \in {"ok", "normalize fails", "export fails"} :
       CASE outcome = "ok" ->
              /\ fs' = fs \cup {WavPath(TempName(i))}
              /\ file_path' = [file_path EXCEPT ![i] = WavPath(TempName(i))]
              /\ response' = [response EXCEPT ![i] =
                                Append(@, [status |-> 200,
                                           detail |-> <<"text/event-stream">>])]
              /\ pc' = [pc EXCEPT ![i] = "Unstarted"]
              /\ UNCHANGED <<log, raised>>
         [] outcome = "normalize fails" ->
              /\ FailProcessing(i, "normalize failed")
              /\ UNCHANGED <<fs, file_path>>
         [] outcome = "export fails" ->
              \* export opens wav_path before it runs the encoder
              /\ fs' = fs \cup {WavPath(TempName(i))}
              /\ FailProcessing(i, "encoder message")
              /\ UNCHANGED file_path
  /\ UNCHANGED <<decodes, connected, loopVars, streamVars, engineFailed, removals>>

\* --------------------------------------------------- transcribe_audio
\* variant: the completion line is sent on the failure path as well
FailTranscription_SendsComplete(i, msg) ==
  /\ engineFailed' = [engineFailed EXCEPT ![i] = TRUE]
  /\ log' = Append(log, <<i, "Error in transcription">>)
  /\ raised' = [raised EXCEPT ![i] = TranscriptionError(msg)]
  /\ pc' = [pc EXCEPT ![i] = "Finally"]
  /\ events' = [events EXCEPT ![i] = Yield(@, JsonLine(CompleteRecord))]
  /\ frames' = [frames EXCEPT ![i] = Yield(@, SSEFrame(JsonLine(CompleteRecord)))]

\* the except clause of transcribe_audio: print, raise HTTPException(500);
\* the finally block is entered with that exception propagating
FailTranscription(i, msg) ==
  /\ engineFailed' = [engineFailed EXCEPT ![i] = TRUE]
  /\ log' = Append(log, <<i, "Error in transcription">>)
  /\ raised' = [raised EXCEPT ![i] = TranscriptionError(msg)]
  /\ pc' = [pc EXCEPT ![i] = "Finally"]
  /\ UNCHANGED <<events, frames>>

\* the transport pulls the first item: the generator body starts and calls
\* model.transcribe(file_path, ...), then seeds the attribution state
StartTranscription(i) ==
  /\ pc[i] = "Unstarted"
  /\ connected[i]
  /\ \E ok \in BOOLEAN :
       IF ok
       THEN /\ pc' = [pc EXCEPT ![i] = "Loop"]
            /\ current_speaker' = [current_speaker EXCEPT ![i] = SeedSpeaker]
            /\ last_end_time' = [last_end_time EXCEPT ![i] = SeedLastEnd]
            /\ UNCHANGED <<log, raised, engineFailed, streamVars>>
       ELSE /\ FailTranscription(i, "model failure")
            /\ UNCHANGED <<current_speaker, last_end_time>>
  /\ UNCHANGED <<fs, handlerVars, connected, consumed, removals>>

\* one iteration of `for segment in segments' with a segment the engine
\* produced: pause check, strip, and for a non-empty text the yield of its
\* line, which event_generator frames and hands to the transport
Consume(i, seg) ==
  /\ pc[i] = "Loop"
  /\ LET sp   == SpeakerFor(current_speaker[i], seg.start, last_end_time[i])
         text == Strip(seg.text)
         line == JsonLine(Result(sp, text, seg))
     IN /\ consumed' = [consumed EXCEPT ![i] = Append(@, seg)]
        /\ current_speaker' = [current_speaker EXCEPT ![i] = sp]
        /\ last_end_time' = [last_end_time EXCEPT ![i] = LastEndAfter(@, seg, text)]
        /\ IF IsTruthy(text)
           THEN /\ events' = [events EXCEPT ![i] = Yield(@, line)]
                /\ frames' = [frames EXCEPT ![i] = Yield(@, SSEFrame(line))]
                /\ pc' = [pc EXCEPT ![i] = "AtYield"]
           ELSE UNCHANGED <<events, frames, pc>>
  /\ UNCHANGED <<fs, log, raised, handlerVars, connected, engineFailed, removals>>

ConsumeSegment(i) == \E seg \in NextSegments(consumed[i]) : Consume(i, seg)

\* the engine raises while producing the next segment
EngineFails(i) ==
  /\ pc[i] = "Loop"
  /\ FailTranscription(i, "decode failure")
  /\ UNCHANGED <<fs, handlerVars, connected, loopVars, removals>>

\* the engine's sequence is exhausted: yield json.dumps({"complete": True})
EngineEnds(i) ==
  /\ pc[i] = "Loop"
  /\ events' = [events EXCEPT ![i] = Yield(@, JsonLine(CompleteRecord))]
  /\ frames' = [frames EXCEPT ![i] = Yield(@, SSEFrame(JsonLine(CompleteRecord)))]
  /\ pc' = [pc EXCEPT ![i] = "AtComplete"]
  /\ UNCHANGED <<fs, log, raised, handlerVars, connected, loopVars,
                 engineFailed, removals>>

\* the transport pulls again after a segment line: the generator resumes
\* behind its yield and awaits asyncio.sleep(0.1)
ResumeAfterYield(i) ==
  /\ pc[i] = "AtYield"
  /\ connected[i]
  /\ pc' = [pc EXCEPT ![i] = "Sleeping"]
  /\ UNCHANGED <<fs, log, raised, handlerVars, connected, loopVars,
                 streamVars, engineFailed, removals>>

\* the pacing delay has elapsed: back to the head of the loop
WakeUp(i) ==
  /\ pc[i] = "Sleeping"
  /\ connected[i]
  /\ pc' = [pc EXCEPT ![i] = "Loop"]
  /\ UNCHANGED <<fs, log, raised, handlerVars, connected, loopVars,
                 streamVars, engineFailed, removals>>

\* variant: the body ends behind the completion line without a finally block
ResumeAfterComplete_SkipsFinally(i) ==
  /\ pc[i] = "AtComplete"
  /\ connected[i]
  /\ pc' = [pc EXCEPT ![i] = "Done"]
  /\ UNCHANGED <<fs, log, raised, handlerVars, connected, loopVars,
                 streamVars, engineFailed, removals>>

\* the transport pulls again after the completion line: the generator body
\* ends and enters its finally block with no exception
ResumeAfterComplete(i) ==
  /\ pc[i] = "AtComplete"
  /\ connected[i]
  /\ pc' = [pc EXCEPT ![i] = "Finally"]
  /\ UNCHANGED <<fs, log, raised, handlerVars, connected, loopVars,
                 streamVars, engineFailed, removals>>

\* ------------------------------------------------------------- the client
SuspensionPoints == {"Unstarted", "AtYield", "Sleeping", "AtComplete"}

\* the client goes away (or a send to it fails) while the producer is suspended
ClientDisconnect(i) ==
  /\ pc[i] \in SuspensionPoints
  /\ connected[i]
  /\ connected' = [connected EXCEPT ![i] = FALSE]
  /\ UNCHANGED <<pc, fs, log, raised, handlerVars, loopVars, streamVars,
                 engineFailed, removals>>

\* the transport abandons the response: a generator that never started is
\* dropped without running any of its body; one suspended at a yield is
\* closed (GeneratorExit), one awaiting the sleep is cancelled
\* (CancelledError); neither is an Exception, so only the finally block runs
TearDown(i) ==
  /\ pc[i] \in SuspensionPoints
  /\ ~connected[i]
  /\ raised' = [raised EXCEPT ![i] =
                  IF pc[i] = "Sleeping" THEN OtherExc("CancelledError", "cancelled")
                  ELSE IF pc[i] = "Unstarted" THEN OtherExc("Dropped", "never started")
                  ELSE OtherExc("GeneratorExit", "closed")]
  /\ pc' = [pc EXCEPT ![i] = IF pc[i] = "Unstarted" THEN "Done" ELSE "Finally"]
  /\ UNCHANGED <<fs, log, handlerVars, connected, loopVars, streamVars,
                 engineFailed, removals>>

\* ----------------------------------------------------- the finally block
\* try: os.remove(file_path); os.remove(file_path[:-4])
\* except Exception as e: print(...)
Cleanup(i) ==
  /\ pc[i] = "Finally"
  /\ \E failWav, failOrig \in BOOLEAN :
       LET r == RemoveFiles(fs, file_path[i], failWav, failOrig)
           failed == \E k \in 1..Len(r.tried) : ~r.tried[k].ok
       IN /\ failWav => ~failOrig
          /\ fs' = r.fs
          /\ removals' = [removals EXCEPT ![i] = @ \o r.tried]
          /\ log' = IF failed THEN Append(log, <<i, "Error cleaning up files">>)
                    ELSE log
          /\ raised' = [raised EXCEPT ![i] = AfterFinally(@, failed)]
  /\ pc' = [pc EXCEPT ![i] = "Done"]
  /\ UNCHANGED <<handlerVars, connected, loopVars, streamVars, engineFailed>>

\* ------------------------------------------------------------ specification
Step(i) ==
  \/ SaveUpload(i)
  \/ DecodeAuto(i)
  \/ DecodeExplicit(i)
  \/ ExportAndRespond(i)
  \/ StartTranscription(i)
  \/ ConsumeSegment(i)
  \/ EngineFails(i)
  \/ EngineEnds(i)
  \/ ResumeAfterYield(i)
  \/ WakeUp(i)
  \/ ResumeAfterComplete(i)
  \/ ClientDisconnect(i)
  \/ TearDown(i)
  \/ Cleanup(i)

Next == \E i \in Invs : Step(i)

Spec == Init /\ [][Next]_vars

\* ---------------------------- a small engine, two interleaved invocations
\* the engine's outputs when two invocations run: a spoken segment, a
\* segment without words after a long pause, a spoken one after a long pause
ConcSegments ==
  { [start |-> 0,  end |-> 5,  text |-> <<"a">>],
    [start |-> 15, end |-> 15, text |-> <<" ">>],
    [start |-> 15, end |-> 20, text |-> <<" ", "a", " ">>] }

ConcNextSegments(hist) ==
  {s \in ConcSegments :
     /\ Len(hist) < ConcMaxSegs
     /\ hist # <<>> => hist[Len(hist)].start <= s.start}

ConsumeSegmentConc(i) == \E seg \in ConcNextSegments(consumed[i]) : Consume(i, seg)

ConcStep(i) ==
  \/ SaveUpload(i)
  \/ DecodeAuto(i)
  \/ DecodeExplicit(i)
  \/ ExportAndRespond(i)
  \/ StartTranscription(i)
  \/ ConsumeSegmentConc(i)
  \/ EngineFails(i)
  \/ EngineEnds(i)
  \/ ResumeAfterYield(i)
  \/ WakeUp(i)
  \/ ResumeAfterComplete(i)
  \/ ClientDisconnect(i)
  \/ TearDown(i)
  \/ Cleanup(i)

ConcNext == \E i \in Invs : ConcStep(i)

\* two requests are being handled; their steps interleave at will
ConcSpec == InitFor({1, 2}) /\ [][ConcNext]_vars

\* what the invocation does by itself once it may run: every step but the
\* client's going away
Progress(i) ==
  \/ SaveUpload(i)
  \/ DecodeAuto(i)
  \/ DecodeExplicit(i)
  \/ ExportAndRespond(i)
  \/ StartTranscription(i)
  \/ ConsumeSegmentConc(i)
  \/ EngineFails(i)
  \/ EngineEnds(i)
  \/ ResumeAfterYield(i)
  \/ WakeUp(i)
  \/ ResumeAfterComplete(i)
  \/ TearDown(i)
  \/ Cleanup(i)

\* the event loop runs every coroutine that can run: the decoder and the
\* engine return, the pacing delay elapses, the transport pulls the next
\* item; one request, with the engine's outputs of the interleaved runs
FairSpec ==
  /\ InitFor({1})
  /\ [][ConcNext]_vars
  /\ \A i \in Invs : WF_vars(Progress(i))

\* ---------------------------------------------------------- derived state
Ended(i) == pc[i] = "Done"
NormalizationCompleted(i) == file_path[i] # <<>>
IsComplete(line) == line[2].complete
SegmentEvents(i) == SelectSeq(events[i], LAMBDA l : ~IsComplete(l))
CompleteCount(i) == Len(SelectSeq(events[i], IsComplete))
NonEmptySegs(i) == Spoken(consumed[i])
RemovalFailed(tried) == \E k \in 1..Len(tried) : ~tried[k].ok
\* the generator ran to its end and nothing was raised
Succeeded(i) ==
  /\ Ended(i) /\ NormalizationCompleted(i)
  /\ raised[i] = NoExc /\ ~engineFailed[i]

TypeOK ==
  /\ pc \in [Invs -> {"Idle", "Received", "Decode1", "Decode2", "Export",
                      "Unstarted", "Loop", "AtYield", "Sleeping", "AtComplete",
                      "Finally", "Done"}]
  /\ connected \in [Invs -> BOOLEAN]
  /\ current_speaker \in [Invs -> {"Speaker 1", "Speaker 2"}]
  /\ \A i \in Invs : Len(frames[i]) = Len(events[i])

\* ================================================================ claims
\* the payload of a line, and the literal forms of the completion line
Payload(line) == line[2]
CompleteLine == <<"json", [complete |-> TRUE], "\n">>
CompleteFrame == <<"data: ", "json", [complete |-> TRUE], "\n", "\n", "\n">>

\* C1: a successful invocation's stream holds exactly one Complete event,
\* and it is the last event: no segment event follows it.
C1_CompleteOnceAndLast ==
  \A i \in Invs :
    Succeeded(i) =>
      /\ events[i] # <<>>
      /\ events[i][Len(events[i])] = CompleteLine
      /\ \A k \in 1..(Len(events[i]) - 1) : ~Payload(events[i][k]).complete
      /\ CompleteCount(i) = 1

C1_Witness ==
  \E i \in Invs : Succeeded(i) /\ Len(events[i]) >= 3

\* C2: once an invocation whose normalization completed has ended (by
\* success, engine failure or a failure while emitting), neither the upload
\* nor the waveform is in storage.
C2_BothFilesAbsent ==
  \A i \in Invs :
    (Ended(i) /\ NormalizationCompleted(i) /\ removals[i] # <<>>) =>
      /\ TempName(i) \notin fs
      /\ WavPath(TempName(i)) \notin fs

\* the label of the k-th of segs when every segment is emitted: one flip for
\* each segment up to it that starts more than the threshold after the end
\* of its predecessor (after 0 for the first)
PauseBefore(segs, k) == segs[k].start - (IF k = 1 THEN 0 ELSE segs[k - 1].end)
AlternationLabel(segs, k) ==
  IF Cardinality({j \in 1..k : PauseBefore(segs, j) > Threshold}) % 2 = 0
  THEN "Speaker 1" ELSE "Speaker 2"
Labels(i) == [k \in 1..Len(SegmentEvents(i)) |-> Payload(SegmentEvents(i)[k]).speaker]

\* C3: when every segment has non-empty text, the label flips at a segment
\* exactly when it starts more than 0.5 s after the previous end (0 at the
\* start), a pause of exactly 0.5 s does not flip, and the segment carries
\* the label after the decision; the example yields A, A, B, B.
C3_SpeakerAlternation ==
  \A i \in Invs :
    /\ (\A k \in 1..Len(consumed[i]) : HasVisibleChar(consumed[i][k].text)) =>
         /\ Len(SegmentEvents(i)) = Len(consumed[i])
         /\ \A k \in 1..Len(consumed[i]) :
              Labels(i)[k] = AlternationLabel(consumed[i], k)
    /\ consumed[i] = ExampleSegs =>
         Labels(i) = <<"Speaker 1", "Speaker 1", "Speaker 2", "Speaker 2">>

C3_Witness ==
  \E i \in Invs : consumed[i] = ExampleSegs /\ Len(SegmentEvents(i)) = 4

\* C4: no segment event has an empty text, and there are as many segment
\* events as consumed engine segments with a non-empty trimmed text.
C4_NoEmptyTextEvents ==
  \A i \in Invs :
    /\ \A k \in 1..Len(SegmentEvents(i)) : Payload(SegmentEvents(i)[k]).text # <<>>
    /\ Len(SegmentEvents(i)) = Len(NonEmptySegs(i))

C4_Witness ==
  \E i \in Invs :
    /\ Len(SegmentEvents(i)) >= 1
    /\ Len(consumed[i]) > Len(SegmentEvents(i))

\* C5 as stated: the event of a segment with non-empty trimmed text carries
\* the segment's start, end and text unchanged, whitespace included.
C5_TextUnchanged ==
  \A i \in Invs :
    \A k \in 1..Len(SegmentEvents(i)) :
      k <= Len(NonEmptySegs(i)) =>
        /\ Payload(SegmentEvents(i)[k]).start = NonEmptySegs(i)[k].start
        /\ Payload(SegmentEvents(i)[k]).end = NonEmptySegs(i)[k].end
        /\ Payload(SegmentEvents(i)[k]).text = NonEmptySegs(i)[k].text

\* t is s without its leading and trailing whitespace
IsTrimOf(t, s) ==
  /\ t # <<>> => t[1] \notin Whitespace /\ t[Len(t)] \notin Whitespace
  /\ \E a \in 0..Len(s) :
       /\ a + Len(t) <= Len(s)
       /\ SubSeq(s, a + 1, a + Len(t)) = t
       /\ \A k \in 1..Len(s) : (k <= a \/ k > a + Len(t)) => s[k] \in Whitespace

\* C5 (amended): the event carries the segment's start and end unchanged and
\* the segment's text with leading and trailing whitespace removed; beside
\* these it holds only the speaker label and complete: false.
C5_TextTrimmed ==
  \A i \in Invs :
    \A k \in 1..Len(SegmentEvents(i)) :
      k <= Len(NonEmptySegs(i)) =>
        /\ Payload(SegmentEvents(i)[k]).start = NonEmptySegs(i)[k].start
        /\ Payload(SegmentEvents(i)[k]).end = NonEmptySegs(i)[k].end
        /\ IsTrimOf(Payload(SegmentEvents(i)[k]).text, NonEmptySegs(i)[k].text)
        /\ DOMAIN Payload(SegmentEvents(i)[k]) =
             {"speaker", "text", "start", "end", "complete"}
        /\ Payload(SegmentEvents(i)[k]).complete = FALSE

C5_Witness ==
  \E i \in Invs :
    \E k \in 1..Len(SegmentEvents(i)) :
      /\ k <= Len(NonEmptySegs(i))
      /\ Payload(SegmentEvents(i)[k]).text # NonEmptySegs(i)[k].text

BothDecodesFailed(i) ==
  /\ Len(decodes[i]) = 2
  /\ ~decodes[i][1].ok
  /\ ~decodes[i][2].ok

\* C6: when auto-detection and the explicit-format retry both fail, the
\* invocation ends with exactly one response, a 400 carrying the decoder's
\* message; no streaming response is created and no event is emitted.
C6_DecodeFailureIsPreStream ==
  \A i \in Invs :
    BothDecodesFailed(i) =>
      /\ Ended(i)
      /\ response[i] = <<[status |-> 400,
                          detail |-> <<"Error processing audio: ",
                                       "m4a decoder message">>]>>
      /\ raised[i].kind = "HTTPException" /\ raised[i].status = 400
      /\ file_path[i] = <<>>
      /\ events[i] = <<>>
      /\ frames[i] = <<>>

C6_Witness ==
  \E i \in Invs : BothDecodesFailed(i) /\ Ended(i)

\* C7: when the engine ends without failing and produced no segment with a
\* non-empty trimmed text, the stream is the single event {"complete": true}.
C7_SilentClip ==
  \A i \in Invs :
    (Succeeded(i) /\ NonEmptySegs(i) = <<>>) =>
      /\ events[i] = <<CompleteLine>>
      /\ frames[i] = <<CompleteFrame>>

C7_Witness ==
  \E i \in Invs : Succeeded(i) /\ NonEmptySegs(i) = <<>> /\ Len(consumed[i]) >= 2

\* C8: the frames handed to the transport are the pipeline's records in the
\* same order, one 'data: ...' frame per record, none dropped, duplicated or
\* merged, and the segment events follow the engine's order of production.
C8_FramesFollowProduction ==
  \A i \in Invs :
    /\ Len(frames[i]) = Len(events[i])
    /\ \A k \in 1..Len(events[i]) :
         frames[i][k] = <<"data: ", events[i][k][1], events[i][k][2],
                          events[i][k][3], "\n", "\n">>
    /\ Len(SegmentEvents(i)) = Len(NonEmptySegs(i))
    /\ \A k \in 1..Len(SegmentEvents(i)) :
         /\ events[i][k] = SegmentEvents(i)[k]
         /\ Payload(events[i][k]).start = NonEmptySegs(i)[k].start
         /\ Payload(events[i][k]).end = NonEmptySegs(i)[k].end

C8_Witness ==
  \E i \in Invs :
    /\ Len(frames[i]) = 3
    /\ Payload(events[i][1]).start # Payload(events[i][2]).start
    /\ events[i][3] = CompleteLine

\* C9: after an engine failure (at the transcribe call or while a segment is
\* produced) no event is emitted any more, the events emitted before stay as
\* they were, and the stream holds no Complete event.
C9_EngineFailureIsFatal ==
  [][\A i \in Invs :
       engineFailed'[i] =>
         /\ events'[i] = events[i]
         /\ frames'[i] = frames[i]
         /\ \A k \in 1..Len(events'[i]) : ~Payload(events'[i][k]).complete]_vars

C9_Witness ==
  \E i \in Invs : engineFailed[i] /\ Ended(i) /\ Len(events[i]) >= 1

\* C10: a failing removal in the cleanup step is logged and swallowed: what
\* was propagating when the step began (nothing, or the engine's error) is
\* what leaves it, and the events, the frames and the response stay as they
\* were.
C10_CleanupFailureSwallowed ==
  [][\A i \in Invs :
       (pc[i] = "Finally" /\ pc'[i] = "Done" /\ RemovalFailed(removals'[i])) =>
         /\ raised'[i] = raised[i]
         /\ events'[i] = events[i]
         /\ frames'[i] = frames[i]
         /\ response'[i] = response[i]
         /\ log' = Append(log, <<i, "Error cleaning up files">>)]_vars

C10_Witness ==
  \E i \in Invs :
    /\ Ended(i) /\ RemovalFailed(removals[i])
    /\ engineFailed[i]
    /\ raised[i] = [kind |-> "HTTPException", status |-> 500,
                    detail |-> <<"Transcription error: ", "decode failure">>]
    /\ Len(events[i]) >= 1

\* the two temporary files of an invocation
OwnFiles(i) == {TempName(i), WavPath(TempName(i))}

\* C11: when the client has disconnected after the streaming response was
\* created (before the first pull, at a yield or during the pacing delay),
\* the invocation ends with its cleanup step run and both temporary files
\* deleted.
C11_DisconnectRunsCleanup ==
  \A i \in Invs :
    (~connected[i] /\ Ended(i)) =>
      /\ removals[i] # <<>>
      /\ OwnFiles(i) \cap fs = {}

\* C12: the cleanup step runs for every invocation, whichever stage it ends
\* in; when normalization fails after the upload was persisted, the upload
\* does not outlive the invocation.
C12_CleanupUnconditional ==
  \A i \in Invs :
    (Ended(i) /\ decodes[i] # <<>>) =>
      /\ removals[i] # <<>>
      /\ TempName(i) \notin fs

Last(seq) == seq[Len(seq)]

\* C14: a segment whose trimmed text is empty leaves last_end_time as it was
\* and emits nothing; last_end_time changes only when a segment is emitted,
\* and then becomes that segment's end.
C14_DropKeepsLastEnd ==
  [][\A i \in Invs :
       IF consumed'[i] # consumed[i]
       THEN IF HasVisibleChar(Last(consumed'[i]).text)
            THEN /\ last_end_time'[i] = Last(consumed'[i]).end
                 /\ Len(events'[i]) = Len(events[i]) + 1
            ELSE /\ last_end_time'[i] = last_end_time[i]
                 /\ events'[i] = events[i]
       ELSE last_end_time'[i] = last_end_time[i]]_vars

C14_Witness ==
  \E i \in Invs :
    /\ Len(consumed[i]) >= 2
    /\ ~HasVisibleChar(Last(consumed[i]).text)
    /\ Spoken(consumed[i]) # <<>>
    /\ last_end_time[i] = Last(Spoken(consumed[i])).end
    /\ last_end_time[i] # Last(consumed[i]).end

AnyDecodeOk(i) == \E k \in 1..Len(decodes[i]) : decodes[i][k].ok
Failed400(i) == raised[i].kind = "HTTPException" /\ raised[i].status = 400
DecodeOrder(i) ==
  /\ Len(decodes[i]) <= 2
  /\ Len(decodes[i]) >= 1 => decodes[i][1].format = "auto"
  /\ Len(decodes[i]) = 2 => ~decodes[i][1].ok /\ decodes[i][2].format = "m4a"
SucceedsWhenDecoded(i) ==
  (AnyDecodeOk(i) /\ pc[i] \notin {"Export"} /\ ~Failed400(i)) =>
    /\ file_path[i] = WavPath(TempName(i))
    /\ response[i] = <<[status |-> 200, detail |-> <<"text/event-stream">>]>>

\* C15 as stated: auto-detection first, the explicit format only after it
\* failed and once; normalization succeeds when an attempt and the export
\* succeed, and a 400 is raised only if both attempts failed or a step after
\* the decode failed.
C15_Fails400OnlyAfterDecode ==
  \A i \in Invs :
    /\ DecodeOrder(i)
    /\ SucceedsWhenDecoded(i)
    /\ Failed400(i) => (BothDecodesFailed(i) \/ AnyDecodeOk(i))

\* C15 (amended): as stated, except that a 400 is also raised when
\* persisting the upload fails, before any decode attempt: a 400 is raised
\* only if persisting failed, both attempts failed, or a step after a
\* successful decode failed, and the detail says which.
C15_DecodeRetry ==
  \A i \in Invs :
    /\ DecodeOrder(i)
    /\ SucceedsWhenDecoded(i)
    /\ BothDecodesFailed(i) => Failed400(i)
    /\ Failed400(i) =>
         /\ Ended(i) /\ file_path[i] = <<>>
         /\ \/ decodes[i] = <<>> /\ raised[i].detail[2] = "read failed"
            \/ BothDecodesFailed(i) /\ raised[i].detail[2] = "m4a decoder message"
            \/ /\ AnyDecodeOk(i)
               /\ raised[i].detail[2] \in {"normalize failed", "encoder message"}

C15_Witness ==
  \E i \in Invs :
    /\ Len(decodes[i]) = 2 /\ decodes[i][2].ok
    /\ NormalizationCompleted(i)

\* positions in consumed[i] of the segments that were emitted, and the
\* number of the event a position produced
SpokenAt(i) == {k \in 1..Len(consumed[i]) : HasVisibleChar(consumed[i][k].text)}
EventOf(i, k) == Cardinality({j \in SpokenAt(i) : j <= k})
\* a and b produced consecutive events
Consecutive(i, a, b) ==
  /\ a \in SpokenAt(i) /\ b \in SpokenAt(i) /\ a < b
  /\ \A k \in (a + 1)..(b - 1) : k \notin SpokenAt(i)
  /\ EventOf(i, b) <= Len(SegmentEvents(i))
LabelOf(i, k) == Payload(SegmentEvents(i)[EventOf(i, k)]).speaker

\* C17 as stated: two consecutive events carry different labels if and only
\* if the later segment starts more than 0.5 s after the end of the earlier
\* emitted one, whatever was dropped in between.
C17_LabelsDifferIffPause ==
  \A i \in Invs :
    \A a, b \in 1..Len(consumed[i]) :
      Consecutive(i, a, b) =>
        (LabelOf(i, a) # LabelOf(i, b)
           <=> consumed[i][b].start - consumed[i][a].end > Threshold)

\* C17 (amended): two consecutive events carry different labels if and only
\* if an odd number of segments, among those dropped in between and the
\* later emitted one, start more than 0.5 s after the end of the earlier
\* emitted one; with nothing dropped in between this is the later segment's
\* own pause.
C17_LabelsDifferIffOddFlips ==
  \A i \in Invs :
    \A a, b \in 1..Len(consumed[i]) :
      Consecutive(i, a, b) =>
        /\ LabelOf(i, a) # LabelOf(i, b)
             <=> Cardinality({k \in (a + 1)..b :
                    consumed[i][k].start - consumed[i][a].end > Threshold}) % 2 = 1
        /\ b = a + 1 =>
             (LabelOf(i, a) # LabelOf(i, b)
                <=> consumed[i][b].start - consumed[i][a].end > Threshold)

C17_Witness ==
  \E i \in Invs :
    /\ consumed[i] = PauseDropSegs
    /\ Len(SegmentEvents(i)) = 2
    /\ LabelOf(i, 1) = LabelOf(i, 3)

\* C18: the pause check runs for the first segment too, against 0: the
\* first emitted segment is Speaker 1 when no segment up to it starts later
\* than 0.5 s, and a first segment with a text that starts later than 0.5 s
\* is Speaker 2.
C18_FirstSegmentAgainstSeed ==
  \A i \in Invs :
    \A k \in 1..Len(consumed[i]) :
      (k \in SpokenAt(i) /\ EventOf(i, k) = 1 /\ SegmentEvents(i) # <<>>) =>
        /\ (\A j \in 1..k : consumed[i][j].start <= Threshold) =>
             LabelOf(i, k) = "Speaker 1"
        /\ (k = 1 /\ consumed[i][1].start > Threshold) =>
             LabelOf(i, k) = "Speaker 2"

C18_Witness ==
  \E i \in Invs :
    /\ SegmentEvents(i) # <<>>
    /\ 1 \in SpokenAt(i)
    /\ consumed[i][1].start > Threshold
    /\ LabelOf(i, 1) = "Speaker 2"

\* C19: the cleanup step removes the waveform first and the upload second in
\* one guarded block: the upload is attempted only after the waveform was
\* removed, so a failed waveform removal leaves the upload in storage, and a
\* failed upload removal after a successful one leaves only the upload.
C19_OneGuardedBlock ==
  \A i \in Invs :
    (Ended(i) /\ removals[i] # <<>>) =>
      /\ removals[i][1].path = WavPath(TempName(i))
      /\ Len(removals[i]) <= 2
      /\ Len(removals[i]) = 2 <=> removals[i][1].ok
      /\ Len(removals[i]) = 2 => removals[i][2].path = TempName(i)
      /\ ~removals[i][1].ok => TempName(i) \in fs
      /\ (removals[i][1].ok /\ ~removals[i][2].ok) =>
           OwnFiles(i) \cap fs = {TempName(i)}
      /\ ~RemovalFailed(removals[i]) => OwnFiles(i) \cap fs = {}

C19_Witness ==
  \E i \in Invs :
    /\ Ended(i)
    /\ removals[i] = <<[path |-> WavPath(TempName(i)), ok |-> FALSE]>>
    /\ TempName(i) \in fs

\* the states of Received -> Normalizing -> Transcribing -> Streaming ->
\* {Completed | Failed}, by their position in that order
Rank(i) ==
  CASE pc[i] \in {"Idle", "Received"} -> 0
    [] pc[i] \in {"Decode1", "Decode2", "Export"} -> 1
    [] pc[i] = "Unstarted" -> 2
    [] pc[i] \in {"Loop", "AtYield", "Sleeping", "AtComplete"} -> 3
    [] pc[i] \in {"Finally", "Done"} -> 4
Outcome(i) == IF raised[i] = NoExc THEN "Completed" ELSE "Failed"

\* C16: an invocation whose normalization completed, and whose client stays,
\* eventually is in a terminal state with its cleanup step run; an
\* invocation never moves backwards through its states and never leaves or
\* changes a terminal state.
C16_TerminatesAndCleansUp ==
  /\ \A i \in Invs :
       (NormalizationCompleted(i) /\ connected[i])
         ~> ((Ended(i) /\ removals[i] # <<>>) \/ ~connected[i])
  /\ [][\A i \in Invs :
          /\ Rank(i)' >= Rank(i)
          /\ Rank(i) = 4 => Outcome(i)' = Outcome(i)]_vars

C16_Witness ==
  \E i \in Invs :
    /\ Ended(i) /\ connected[i] /\ removals[i] # <<>>
    /\ Outcome(i) = "Completed"
    /\ Len(events[i]) >= 3

\* the lines transcribe_audio yields for segs when it runs by itself: the
\* loop of lines 91-111 from its seed
RECURSIVE ReplayFrom(_, _, _)
ReplayFrom(segs, sp, last) ==
  IF segs = <<>> THEN <<>>
  ELSE LET seg  == Head(segs)
           sp2  == SpeakerFor(sp, seg.start, last)
           text == Strip(seg.text)
       IN IF IsTruthy(text)
          THEN <<JsonLine(Result(sp2, text, seg))>> \o ReplayFrom(Tail(segs), sp2, seg.end)
          ELSE ReplayFrom(Tail(segs), sp2, last)
AloneEvents(segs) == ReplayFrom(segs, SeedSpeaker, SeedLastEnd)

\* C13: interleaved invocations share no mutable state: the segment events
\* of each are those it yields when run alone on the same segments, and the
\* cleanup step of one attempts and removes only its own two files, leaving
\* the other's files as they were.
C13_NoSharedState ==
  /\ [](\A i \in Invs : SegmentEvents(i) = AloneEvents(consumed[i]))
  /\ [][\A i \in Invs :
          (pc[i] = "Finally" /\ pc'[i] = "Done") =>
            /\ fs \ fs' \subseteq OwnFiles(i)
            /\ \A k \in 1..Len(removals'[i]) : removals'[i][k].path \in OwnFiles(i)
            /\ \A j \in Invs \ {i} : OwnFiles(j) \cap fs' = OwnFiles(j) \cap fs]_vars

C13_Witness ==
  /\ Ended(1) /\ removals[1] # <<>> /\ ~RemovalFailed(removals[1])
  /\ pc[2] = "Sleeping"
  /\ OwnFiles(2) \subseteq fs
  /\ Len(SegmentEvents(1)) = 2
  /\ Len(SegmentEvents(2)) = 2
  /\ current_speaker[1] # current_speaker[2]

====
